---- MODULE Spec2Model ----
(***************************************************************************)
(* State machine of src/src/App.tsx (the App component): the camera        *)
(* controller, the analysis loop, the connectivity probe and the reactive  *)
(* state they write.                                                       *)
(*                                                                         *)
(* One action is one run of a handler up to its next await, or one         *)
(* continuation after an await (the page runs on a single event loop).     *)
(* Strings are sequences of one-character strings, so that trim() and      *)
(* includes() are computed, not assumed.  A template literal               *)
(* `prefix ${value}` is the pair <<prefix, value>>.                        *)
(*                                                                         *)
(* The model covers the life of the mounted page.  videoRef.current and    *)
(* canvasRef.current are set for all of it, and getContext('2d') on a      *)
(* canvas that is only ever asked for '2d' returns the context (HTML       *)
(* standard), so the early returns of lines 114 (refs) and 123 are not     *)
(* taken.  showDebug only hides the console and is left out.               *)
(***************************************************************************)
EXTENDS Naturals, Sequences, FiniteSets, TLC

\* ------------------------------------------------------------------ bounds
\* events after the mount effects that one run may hold
MaxSteps == 6
\* events that a run of the long session may hold
LongSteps == 4

\* --------------------------------------------------------------- constants
HISTORY_CAP == 10
LOG_CAP == 50

Null == <<"null">>
Undefined == <<"undefined">>
Empty == <<>>

WS == {" ", "\n", "\t"}
NoSigns == <<"N", "o", " ", "s", "i", "g", "n", "s">>
S429 == <<"4", "2", "9">>
SResourceExhausted ==
    <<"R", "E", "S", "O", "U", "R", "C", "E", "_",
      "E", "X", "H", "A", "U", "S", "T", "E", "D">>

MissingKeyText == <<"Gemini API Key is missing. Please add it to your environment variables.", Empty>>
RateLimitText == <<"Rate limit exceeded. Auto-analysis has been stopped to save your quota. Please wait a minute before trying again.", Empty>>

\* ------------------------------------------------------- environment inputs
\* What response.text can be: absent, blank, the sentinel (bare and padded),
\* text that only resembles the sentinel, and two displayable texts.
RawTexts ==
    { Undefined,
      <<" ">>,
      NoSigns,
      <<" ">> \o NoSigns \o <<"\n">>,
      <<"n", "o", " ", "s", "i", "g", "n", "s">>,
      <<" ", "Y", "o", " ">> }

\* What err.message of a failed remote call can be.
ErrMessages ==
    { <<"5", "0", "3">>,
      <<"E", " ">> \o S429 \o <<"!">>,
      SResourceExhausted }

CameraErrors == { <<"d", "e", "n", "i", "e", "d">> }

VARIABLES
    apiKey,          \* process.env.GEMINI_API_KEY is set
    pc,              \* "keycheck", "lifecycle" (mount effects pending), "mounted"
    now,             \* the wall clock read by toLocaleTimeString
    isAnalyzing, isCameraActive, transcription, error, history,
    isModelLoading, logs,
    analysisTimerRef,  \* 0 is null, else the interval id
    timers,          \* live intervals: id -> isCameraActive of the callback's closure
    nextTimer,       \* intervals created so far
    srcObject,       \* videoRef.current.srcObject: 0 is null, else the stream id
    liveStreams,     \* streams with running tracks
    camPending,      \* getUserMedia requests not yet settled
    camReqs,         \* getUserMedia requests made so far
    inflight,        \* generateContent calls of analyzeFrame not yet settled
    nextCall,        \* analysis calls made so far
    probes,          \* generateContent calls of testAIConnection not yet settled
    nProbes,         \* probes made so far
    resolved,        \* the analysis calls settled so far, oldest first
    steps,           \* events since the mount effects
    last             \* the handler or continuation that ran last

appVars == <<apiKey, pc, now, isAnalyzing, isCameraActive, transcription, error,
             history, isModelLoading, logs, analysisTimerRef, timers, nextTimer,
             srcObject, liveStreams, camPending, camReqs, inflight, nextCall,
             probes, nProbes, resolved>>

vars == <<appVars, steps, last>>

camVars == <<srcObject, liveStreams, camPending, camReqs, isCameraActive>>
loopVars == <<isAnalyzing, analysisTimerRef, timers, nextTimer>>
callVars == <<inflight, nextCall>>
probeVars == <<probes, nProbes>>
textVars == <<transcription, history>>
envVars == <<apiKey, pc, now>>

\* ----------------------------------------------------------------- helpers
Take(s, n) == SubSeq(s, 1, IF Len(s) < n THEN Len(s) ELSE n)

RECURSIVE TrimStart(_)
TrimStart(s) ==
    IF s # <<>> /\ Head(s) \in WS THEN TrimStart(Tail(s)) ELSE s

RECURSIVE TrimEnd(_)
TrimEnd(s) ==
    IF s # <<>> /\ s[Len(s)] \in WS THEN TrimEnd(SubSeq(s, 1, Len(s) - 1)) ELSE s

\* String.prototype.trim
Trim(s) == TrimEnd(TrimStart(s))

\* String.prototype.includes
Includes(s, sub) ==
    \E i \in 1..(Len(s) + 1) :
        /\ i + Len(sub) - 1 <= Len(s)
        /\ SubSeq(s, i, i + Len(sub) - 1) = sub

\* response.text?.trim() || ""
ResultOf(raw) == IF raw = Undefined THEN Empty ELSE Trim(raw)

\* err.message?.includes("429") || err.message?.includes("RESOURCE_EXHAUSTED")
IsRateLimit(m) == Includes(m, S429) \/ Includes(m, SResourceExhausted)

\* addLog with the new entry put last before the slice
addLog_appendThenSlice(lg, msg, type) ==
    Take(lg \o <<[time |-> now, msg |-> msg, type |-> type]>>, LOG_CAP)

\* addLog: newest first, at most LOG_CAP entries
addLog(lg, msg, type) ==
    Take(<<[time |-> now, msg |-> msg, type |-> type]>> \o lg, LOG_CAP)

\* pushHistory that keeps one entry too many
pushHistory_offByOne(h, text) ==
    Take(<<[text |-> text, time |-> now]>> \o h, HISTORY_CAP + 1)

\* pushHistory with the new entry put last
pushHistory_append(h, text) ==
    Take(h \o <<[text |-> text, time |-> now]>>, HISTORY_CAP)

\* the setHistory updater of analyzeFrame
pushHistory(h, text) ==
    Take(<<[text |-> text, time |-> now]>> \o h, HISTORY_CAP)

Without(f, k) == [i \in DOMAIN f \ {k} |-> f[i]]

\* ---------------------------------------------------------------- startup
Init ==
    /\ apiKey \in BOOLEAN
    /\ pc = "keycheck"
    /\ now = 0
    /\ isAnalyzing = FALSE
    /\ isCameraActive = FALSE
    /\ transcription = Empty
    /\ error = Null
    /\ history = <<>>
    /\ isModelLoading = FALSE
    /\ logs = <<>>
    /\ analysisTimerRef = 0
    /\ timers = <<>>
    /\ nextTimer = 0
    /\ srcObject = 0
    /\ liveStreams = {}
    /\ camPending = 0
    /\ camReqs = 0
    /\ inflight = {}
    /\ nextCall = 0
    /\ probes = 0
    /\ nProbes = 0
    /\ resolved = <<>>
    /\ steps = 0
    /\ last = "none"

\* the wall clock moves on between two events
clockTick ==
    /\ pc = "mounted"
    /\ now' = now + 1
    /\ UNCHANGED <<apiKey, pc, isAnalyzing, isCameraActive, transcription, error,
                   history, isModelLoading, logs, analysisTimerRef, timers,
                   nextTimer, srcObject, liveStreams, camPending, camReqs,
                   inflight, nextCall, probes, nProbes, resolved>>

\* useEffect "API Key Verification"
keyCheckEffect ==
    /\ pc = "keycheck"
    /\ pc' = "lifecycle"
    /\ IF apiKey
         THEN /\ logs' = addLog(logs, <<"API Key found in environment", Empty>>, "success")
              /\ error' = error
         ELSE /\ logs' = addLog(logs, <<"API Key is missing from environment!", Empty>>, "error")
              /\ error' = MissingKeyText
    /\ UNCHANGED <<apiKey, now, isModelLoading, resolved>>
    /\ UNCHANGED <<camVars, loopVars, callVars, probeVars, textVars>>

\* startCamera up to its await: log, clear the error, ask for the stream
startCamera ==
    /\ logs' = addLog(logs, <<"Starting camera...", Empty>>, "info")
    /\ error' = Null
    /\ camPending' = camPending + 1
    /\ camReqs' = camReqs + 1
    /\ UNCHANGED <<srcObject, liveStreams, isCameraActive>>
    /\ UNCHANGED <<isModelLoading, resolved>>
    /\ UNCHANGED <<loopVars, callVars, probeVars, textVars>>

\* useEffect "Lifecycle": the mount half
lifecycleEffect ==
    /\ pc = "lifecycle"
    /\ pc' = "mounted"
    /\ startCamera
    /\ UNCHANGED <<apiKey, now>>

\* the camera button while the camera is off, and the "Enable Camera" button
clickStartCamera ==
    /\ pc = "mounted"
    /\ ~isCameraActive
    /\ startCamera
    /\ UNCHANGED envVars

\* startCamera after its await, getUserMedia fulfilled: the stream of the
\* k-th settled request is stream k
startCameraFulfilled ==
    /\ camPending > 0
    /\ LET stream == camReqs - camPending + 1 IN
         /\ liveStreams' = liveStreams \cup {stream}
         /\ srcObject' = stream
    /\ isCameraActive' = TRUE
    /\ logs' = addLog(logs, <<"Camera active", Empty>>, "success")
    /\ camPending' = camPending - 1
    /\ UNCHANGED <<camReqs, error, isModelLoading, resolved>>
    /\ UNCHANGED <<envVars, loopVars, callVars, probeVars, textVars>>

\* startCameraRejected that asks for the camera again
startCameraRejected_retries(m) ==
    /\ camPending > 0
    /\ logs' = addLog(addLog(logs, <<"Camera error: ", m>>, "error"),
                      <<"Starting camera...", Empty>>, "info")
    /\ error' = Null
    /\ camPending' = camPending
    /\ camReqs' = camReqs + 1
    /\ UNCHANGED <<srcObject, liveStreams, isCameraActive>>
    /\ UNCHANGED <<isModelLoading, resolved>>
    /\ UNCHANGED <<envVars, loopVars, callVars, probeVars, textVars>>

\* startCamera after its await, getUserMedia rejected
startCameraRejected(m) ==
    /\ camPending > 0
    /\ logs' = addLog(logs, <<"Camera error: ", m>>, "error")
    /\ error' = <<"Camera Error: ", m>>
    /\ camPending' = camPending - 1
    /\ UNCHANGED <<srcObject, liveStreams, camReqs, isCameraActive>>
    /\ UNCHANGED <<isModelLoading, resolved>>
    /\ UNCHANGED <<envVars, loopVars, callVars, probeVars, textVars>>

\* ---------------------------------------------------------- analysis loop
\* stopAnalysis without setIsModelLoading(false)
stopAnalysis_keepsLoading(lg) ==
    /\ timers' = IF analysisTimerRef # 0 THEN Without(timers, analysisTimerRef) ELSE timers
    /\ analysisTimerRef' = 0
    /\ isAnalyzing' = FALSE
    /\ isModelLoading' = isModelLoading
    /\ logs' = addLog(lg, <<"Auto-analysis stopped", Empty>>, "info")
    /\ UNCHANGED nextTimer

\* stopAnalysis that clears the interval but leaves its id in the handle
stopAnalysis_keepsHandle(lg) ==
    /\ timers' = IF analysisTimerRef # 0 THEN Without(timers, analysisTimerRef) ELSE timers
    /\ analysisTimerRef' = analysisTimerRef
    /\ isAnalyzing' = FALSE
    /\ isModelLoading' = FALSE
    /\ logs' = addLog(lg, <<"Auto-analysis stopped", Empty>>, "info")
    /\ UNCHANGED nextTimer

\* stopAnalysis that drops the handle without clearInterval
stopAnalysis_noClear(lg) ==
    /\ timers' = timers
    /\ analysisTimerRef' = 0
    /\ isAnalyzing' = FALSE
    /\ isModelLoading' = FALSE
    /\ logs' = addLog(lg, <<"Auto-analysis stopped", Empty>>, "info")
    /\ UNCHANGED nextTimer

\* stopAnalysis, run after the caller has brought the log to lg
stopAnalysis(lg) ==
    /\ timers' = IF analysisTimerRef # 0 THEN Without(timers, analysisTimerRef) ELSE timers
    /\ analysisTimerRef' = 0
    /\ isAnalyzing' = FALSE
    /\ isModelLoading' = FALSE
    /\ logs' = addLog(lg, <<"Auto-analysis stopped", Empty>>, "info")
    /\ UNCHANGED nextTimer

\* stopCamera without its closing stopAnalysis()
stopCamera_noCascade ==
    IF srcObject # 0
      THEN /\ liveStreams' = liveStreams \ {srcObject}
           /\ srcObject' = 0
           /\ isCameraActive' = FALSE
           /\ logs' = addLog(logs, <<"Camera stopped", Empty>>, "info")
           /\ UNCHANGED <<camPending, camReqs, error, resolved, isModelLoading>>
           /\ UNCHANGED <<envVars, loopVars, callVars, probeVars, textVars>>
      ELSE UNCHANGED appVars

\* stopCamera
stopCamera ==
    IF srcObject # 0
      THEN /\ liveStreams' = liveStreams \ {srcObject}
           /\ srcObject' = 0
           /\ isCameraActive' = FALSE
           /\ stopAnalysis(addLog(logs, <<"Camera stopped", Empty>>, "info"))
           /\ UNCHANGED <<camPending, camReqs, error, resolved>>
           /\ UNCHANGED <<envVars, callVars, probeVars, textVars>>
      ELSE UNCHANGED appVars

\* the camera button while the camera is on
clickStopCamera ==
    /\ pc = "mounted"
    /\ isCameraActive
    /\ stopCamera

\* analyzeFrame without the isCameraActive test of its first line
analyzeFrame_noCameraGuard(cam, origin, lg) ==
    IF apiKey
      THEN [issued |-> TRUE,
            loading |-> TRUE,
            logs |-> addLog(lg, <<"Analyzing frame...", Empty>>, "info"),
            inflight |-> inflight \cup {[id |-> nextCall + 1, origin |-> origin]},
            nextCall |-> nextCall + 1]
      ELSE [issued |-> FALSE,
            loading |-> isModelLoading,
            logs |-> lg,
            inflight |-> inflight,
            nextCall |-> nextCall]

\* analyzeFrame up to its await, called from a closure that saw
\* isCameraActive = cam, with the log at lg: what it makes of the loading
\* flag, the log and the calls in flight
analyzeFrame(cam, origin, lg) ==
    IF cam /\ apiKey
      THEN [issued |-> TRUE,
            loading |-> TRUE,
            logs |-> addLog(lg, <<"Analyzing frame...", Empty>>, "info"),
            inflight |-> inflight \cup {[id |-> nextCall + 1, origin |-> origin]},
            nextCall |-> nextCall + 1]
      ELSE [issued |-> FALSE,
            loading |-> isModelLoading,
            logs |-> lg,
            inflight |-> inflight,
            nextCall |-> nextCall]

\* startAnalysis without its immediate analyzeFrame()
startAnalysis_noImmediate ==
    IF analysisTimerRef # 0
      THEN UNCHANGED appVars
      ELSE LET id == nextTimer + 1 IN
             /\ isAnalyzing' = TRUE
             /\ analysisTimerRef' = id
             /\ timers' = timers @@ (id :> isCameraActive)
             /\ nextTimer' = id
             /\ logs' = addLog(logs, <<"Auto-analysis started", Empty>>, "info")
             /\ UNCHANGED <<error, resolved, isModelLoading>>
             /\ UNCHANGED <<envVars, camVars, callVars, probeVars, textVars>>

\* startAnalysis without the test of the handle
startAnalysis_noGuard ==
    LET r == analyzeFrame(isCameraActive, "auto", logs)
        id == nextTimer + 1 IN
      /\ isAnalyzing' = TRUE
      /\ isModelLoading' = r.loading
      /\ inflight' = r.inflight
      /\ nextCall' = r.nextCall
      /\ analysisTimerRef' = id
      /\ timers' = timers @@ (id :> isCameraActive)
      /\ nextTimer' = id
      /\ logs' = addLog(r.logs, <<"Auto-analysis started", Empty>>, "info")
      /\ UNCHANGED <<error, resolved>>
      /\ UNCHANGED <<envVars, camVars, probeVars, textVars>>

\* startAnalysis
startAnalysis ==
    IF analysisTimerRef # 0
      THEN UNCHANGED appVars
      ELSE LET r == analyzeFrame(isCameraActive, "auto", logs)
               id == nextTimer + 1 IN
             /\ isAnalyzing' = TRUE
             /\ isModelLoading' = r.loading
             /\ inflight' = r.inflight
             /\ nextCall' = r.nextCall
             /\ analysisTimerRef' = id
             /\ timers' = timers @@ (id :> isCameraActive)
             /\ nextTimer' = id
             /\ logs' = addLog(r.logs, <<"Auto-analysis started", Empty>>, "info")
             /\ UNCHANGED <<error, resolved>>
             /\ UNCHANGED <<envVars, camVars, probeVars, textVars>>

\* the auto button without its disabled={!isCameraActive}
clickStartAuto_noCameraGuard ==
    /\ pc = "mounted"
    /\ ~isAnalyzing
    /\ startAnalysis

\* the "Start Auto" face of the auto button (disabled while the camera is off)
clickStartAuto ==
    /\ pc = "mounted"
    /\ isCameraActive
    /\ ~isAnalyzing
    /\ startAnalysis

\* the "Stop Auto" face of the auto button
clickStopAuto ==
    /\ pc = "mounted"
    /\ isCameraActive
    /\ isAnalyzing
    /\ stopAnalysis(logs)
    /\ UNCHANGED <<error, resolved>>
    /\ UNCHANGED <<envVars, camVars, callVars, probeVars, textVars>>

\* one firing of the interval id
intervalTick(id) ==
    /\ id \in DOMAIN timers
    /\ LET r == analyzeFrame(timers[id], "auto", logs) IN
         /\ isModelLoading' = r.loading
         /\ logs' = r.logs
         /\ inflight' = r.inflight
         /\ nextCall' = r.nextCall
    /\ UNCHANGED <<error, resolved>>
    /\ UNCHANGED <<envVars, camVars, loopVars, probeVars, textVars>>

\* manualCapture that also raises the analyzing flag
manualCapture_arms ==
    /\ pc = "mounted"
    /\ ~isAnalyzing /\ isCameraActive
    /\ ~isModelLoading
    /\ LET r == analyzeFrame(isCameraActive, "manual", logs) IN
         /\ isModelLoading' = r.loading
         /\ logs' = r.logs
         /\ inflight' = r.inflight
         /\ nextCall' = r.nextCall
    /\ isAnalyzing' = TRUE
    /\ UNCHANGED <<analysisTimerRef, timers, nextTimer>>
    /\ UNCHANGED <<error, resolved>>
    /\ UNCHANGED <<envVars, camVars, probeVars, textVars>>

\* the "Capture & Translate" button: rendered while idle with the camera on,
\* disabled while loading
manualCapture ==
    /\ pc = "mounted"
    /\ ~isAnalyzing /\ isCameraActive
    /\ ~isModelLoading
    /\ LET r == analyzeFrame(isCameraActive, "manual", logs) IN
         /\ isModelLoading' = r.loading
         /\ logs' = r.logs
         /\ inflight' = r.inflight
         /\ nextCall' = r.nextCall
    /\ UNCHANGED <<error, resolved>>
    /\ UNCHANGED <<envVars, camVars, loopVars, probeVars, textVars>>

\* analyzeFrameFulfilled without the test for the sentinel
analyzeFrameFulfilled_noSentinel(c, raw) ==
    /\ c \in inflight
    /\ LET result == ResultOf(raw) IN
         /\ logs' = addLog(logs, <<"AI Result: ", result>>,
                           IF result = NoSigns THEN "info" ELSE "success")
         /\ IF result # Empty
              THEN /\ transcription' = result
                   /\ history' = pushHistory(history, result)
              ELSE UNCHANGED <<transcription, history>>
         /\ resolved' = Append(resolved, [id |-> c.id, origin |-> c.origin, ok |-> TRUE, val |-> result])
    /\ isModelLoading' = FALSE
    /\ inflight' = inflight \ {c}
    /\ UNCHANGED <<error, nextCall>>
    /\ UNCHANGED <<envVars, camVars, loopVars, probeVars>>

\* analyzeFrameFulfilled that shows a result only if no later call was made
analyzeFrameFulfilled_newestOnly(c, raw) ==
    /\ c \in inflight
    /\ LET result == ResultOf(raw) IN
         /\ logs' = addLog(logs, <<"AI Result: ", result>>,
                           IF result = NoSigns THEN "info" ELSE "success")
         /\ IF result # Empty /\ result # NoSigns /\ c.id = nextCall
              THEN /\ transcription' = result
                   /\ history' = pushHistory(history, result)
              ELSE UNCHANGED <<transcription, history>>
         /\ resolved' = Append(resolved, [id |-> c.id, origin |-> c.origin, ok |-> TRUE, val |-> result])
    /\ isModelLoading' = FALSE
    /\ inflight' = inflight \ {c}
    /\ UNCHANGED <<error, nextCall>>
    /\ UNCHANGED <<envVars, camVars, loopVars, probeVars>>

\* analyzeFrameFulfilled without the setIsModelLoading(false) of the finally
analyzeFrameFulfilled_noFinally(c, raw) ==
    /\ c \in inflight
    /\ LET result == ResultOf(raw) IN
         /\ logs' = addLog(logs, <<"AI Result: ", result>>,
                           IF result = NoSigns THEN "info" ELSE "success")
         /\ IF result # Empty /\ result # NoSigns
              THEN /\ transcription' = result
                   /\ history' = pushHistory(history, result)
              ELSE UNCHANGED <<transcription, history>>
         /\ resolved' = Append(resolved, [id |-> c.id, origin |-> c.origin, ok |-> TRUE, val |-> result])
    /\ isModelLoading' = isModelLoading
    /\ inflight' = inflight \ {c}
    /\ UNCHANGED <<error, nextCall>>
    /\ UNCHANGED <<envVars, camVars, loopVars, probeVars>>

\* analyzeFrame after its await, the call c fulfilled with response.text = raw
analyzeFrameFulfilled(c, raw) ==
    /\ c \in inflight
    /\ LET result == ResultOf(raw) IN
         /\ logs' = addLog(logs, <<"AI Result: ", result>>,
                           IF result = NoSigns THEN "info" ELSE "success")
         /\ IF result # Empty /\ result # NoSigns
              THEN /\ transcription' = result
                   /\ history' = pushHistory(history, result)
              ELSE UNCHANGED <<transcription, history>>
         /\ resolved' = Append(resolved, [id |-> c.id, origin |-> c.origin, ok |-> TRUE, val |-> result])
    /\ isModelLoading' = FALSE
    /\ inflight' = inflight \ {c}
    /\ UNCHANGED <<error, nextCall>>
    /\ UNCHANGED <<envVars, camVars, loopVars, probeVars>>

\* analyzeFrameRejected without the stopAnalysis() of the rate-limit branch
analyzeFrameRejected_noStop(c, m) ==
    /\ c \in inflight
    /\ LET lg == addLog(logs, <<"Analysis failed: ", m>>, "error") IN
         /\ error' = IF IsRateLimit(m) THEN RateLimitText ELSE error
         /\ logs' = lg
         /\ isModelLoading' = FALSE
         /\ UNCHANGED loopVars
    /\ resolved' = Append(resolved, [id |-> c.id, origin |-> c.origin, ok |-> FALSE, val |-> m])
    /\ inflight' = inflight \ {c}
    /\ UNCHANGED nextCall
    /\ UNCHANGED <<envVars, camVars, probeVars, textVars>>

\* analyzeFrameRejected that stops the loop on every error
analyzeFrameRejected_stopAlways(c, m) ==
    /\ c \in inflight
    /\ LET lg == addLog(logs, <<"Analysis failed: ", m>>, "error") IN
         /\ error' = IF IsRateLimit(m) THEN RateLimitText ELSE error
         /\ stopAnalysis(lg)
    /\ resolved' = Append(resolved, [id |-> c.id, origin |-> c.origin, ok |-> FALSE, val |-> m])
    /\ inflight' = inflight \ {c}
    /\ UNCHANGED nextCall
    /\ UNCHANGED <<envVars, camVars, probeVars, textVars>>

\* analyzeFrame after its await, the call c rejected with err.message = m
analyzeFrameRejected(c, m) ==
    /\ c \in inflight
    /\ LET lg == addLog(logs, <<"Analysis failed: ", m>>, "error") IN
         IF IsRateLimit(m)
           THEN /\ error' = RateLimitText
                /\ stopAnalysis(lg)
           ELSE /\ logs' = lg
                /\ isModelLoading' = FALSE
                /\ UNCHANGED <<error, loopVars>>
    /\ resolved' = Append(resolved, [id |-> c.id, origin |-> c.origin, ok |-> FALSE, val |-> m])
    /\ inflight' = inflight \ {c}
    /\ UNCHANGED nextCall
    /\ UNCHANGED <<envVars, camVars, probeVars, textVars>>

\* ----------------------------------------------------- connectivity probe
NoAPIKey == <<"N", "o", " ", "A", "P", "I", " ", "K", "e", "y">>
ProbeTexts == { Undefined, <<"O", "K", "\n">> }
ProbeErrors == { <<"5", "0", "3">> }

\* testAIConnection up to its await; without a key it throws before the await
testAIConnection ==
    /\ pc = "mounted"
    /\ ~isModelLoading
    /\ nProbes' = nProbes + 1
    /\ LET lg == addLog(logs, <<"Testing AI connection...", Empty>>, "info") IN
         IF apiKey
           THEN /\ logs' = lg
                /\ isModelLoading' = TRUE
                /\ probes' = probes + 1
                /\ error' = error
           ELSE /\ logs' = addLog(lg, <<"AI Test Failed: ", NoAPIKey>>, "error")
                /\ error' = <<"AI Test Failed: ", NoAPIKey>>
                /\ isModelLoading' = FALSE
                /\ probes' = probes
    /\ UNCHANGED resolved
    /\ UNCHANGED <<envVars, camVars, loopVars, callVars, textVars>>

\* testAIConnection after its await, fulfilled with response.text = raw
testAIConnectionFulfilled(raw) ==
    /\ probes > 0
    /\ probes' = probes - 1
    /\ logs' = addLog(logs, <<"AI Response: ", IF raw = Undefined THEN Undefined ELSE Trim(raw)>>,
                      "success")
    /\ isModelLoading' = FALSE
    /\ UNCHANGED <<nProbes, error, resolved>>
    /\ UNCHANGED <<envVars, camVars, loopVars, callVars, textVars>>

\* testAIConnection after its await, rejected with err.message = m
testAIConnectionRejected(m) ==
    /\ probes > 0
    /\ probes' = probes - 1
    /\ logs' = addLog(logs, <<"AI Test Failed: ", m>>, "error")
    /\ error' = <<"AI Test Failed: ", m>>
    /\ isModelLoading' = FALSE
    /\ UNCHANGED <<nProbes, resolved>>
    /\ UNCHANGED <<envVars, camVars, loopVars, callVars, textVars>>

\* ------------------------------------------------------------ presentation
\* dismissError that also resets the transcription
dismissError_clearsText ==
    /\ pc = "mounted"
    /\ error # Null
    /\ error' = Null
    /\ transcription' = Empty
    /\ UNCHANGED <<isModelLoading, logs, resolved, history>>
    /\ UNCHANGED <<envVars, camVars, loopVars, callVars, probeVars>>

\* the Dismiss button of the error banner
dismissError ==
    /\ pc = "mounted"
    /\ error # Null
    /\ error' = Null
    /\ UNCHANGED <<isModelLoading, logs, resolved>>
    /\ UNCHANGED <<envVars, camVars, loopVars, callVars, probeVars, textVars>>

\* the trash button of the console
clearLogs ==
    /\ pc = "mounted"
    /\ logs # <<>>
    /\ logs' = <<>>
    /\ UNCHANGED <<isModelLoading, error, resolved>>
    /\ UNCHANGED <<envVars, camVars, loopVars, callVars, probeVars, textVars>>

\* ------------------------------------------------------------ specification
\* one event of a run: the mount effects first, then at most MaxSteps others
Step(name, A) ==
    /\ pc = "mounted"
    /\ steps < MaxSteps
    /\ A
    /\ steps' = steps + 1
    /\ last' = name

\* the events of the mounted page
Events ==
    \/ Step("clockTick", clockTick)
    \/ Step("clickStartCamera", clickStartCamera)
    \/ Step("startCameraFulfilled", startCameraFulfilled)
    \/ Step("startCameraRejected", \E m \in CameraErrors : startCameraRejected(m))
    \/ Step("clickStopCamera", clickStopCamera)
    \/ Step("clickStartAuto", clickStartAuto)
    \/ Step("clickStopAuto", clickStopAuto)
    \/ Step("intervalTick", \E id \in DOMAIN timers : intervalTick(id))
    \/ Step("manualCapture", manualCapture)
    \/ Step("analyzeFrameFulfilled",
            \E c \in inflight, raw \in RawTexts : analyzeFrameFulfilled(c, raw))
    \/ Step("analyzeFrameRejected",
            \E c \in inflight, m \in ErrMessages : analyzeFrameRejected(c, m))
    \/ Step("testAIConnection", testAIConnection)
    \/ Step("testAIConnectionFulfilled", \E raw \in ProbeTexts : testAIConnectionFulfilled(raw))
    \/ Step("testAIConnectionRejected", \E m \in ProbeErrors : testAIConnectionRejected(m))
    \/ Step("dismissError", dismissError)
    \/ Step("clearLogs", clearLogs)

Next ==
    \/ keyCheckEffect /\ UNCHANGED steps /\ last' = "keyCheckEffect"
    \/ lifecycleEffect /\ UNCHANGED steps /\ last' = "lifecycleEffect"
    \/ Events

Spec == Init /\ [][Next]_vars

\* The page's buttons never call startAnalysis while the handle is set (the
\* auto button shows "Stop Auto" then).  SpecDirect adds the call itself,
\* made from the closures of the current render, in any state.
NextDirect ==
    \/ Next
    \/ Step("startAnalysis", startAnalysis)

SpecDirect == Init /\ [][NextDirect]_vars

\* ---------------------------------------------------------- a long session
\* The lists reach their caps only after more events than one run holds, so
\* SpecLong starts where the page stands after the mount effects with the
\* key set, the camera granted, and k rounds of: a clock tick, a manual
\* capture, its response with a displayable text; a run goes on from there
\* for LongSteps events.  Each field below is what
\* keyCheckEffect, lifecycleEffect, startCameraFulfilled and k times
\* clockTick, manualCapture, analyzeFrameFulfilled leave in it.
LongRounds == {9, 23}

RoundText(i) ==
    IF i % 2 = 1 THEN <<"Y", "o">> ELSE <<"n", "o", " ", "s", "i", "g", "n", "s">>

RECURSIVE LogsAfter(_)
LogsAfter(k) ==
    IF k = 0
      THEN << [time |-> 0, msg |-> <<"Camera active", Empty>>, type |-> "success"],
              [time |-> 0, msg |-> <<"Starting camera...", Empty>>, type |-> "info"],
              [time |-> 0, msg |-> <<"API Key found in environment", Empty>>, type |-> "success"] >>
      ELSE Take(<< [time |-> k, msg |-> <<"AI Result: ", RoundText(k)>>, type |-> "success"],
                   [time |-> k, msg |-> <<"Analyzing frame...", Empty>>, type |-> "info"] >>
                \o LogsAfter(k - 1), LOG_CAP)

RECURSIVE HistoryAfter(_)
HistoryAfter(k) ==
    IF k = 0
      THEN <<>>
      ELSE Take(<<[text |-> RoundText(k), time |-> k]>> \o HistoryAfter(k - 1), HISTORY_CAP)

AfterRounds(k) ==
    [ now |-> k,
      transcription |-> IF k = 0 THEN Empty ELSE RoundText(k),
      history |-> HistoryAfter(k),
      logs |-> LogsAfter(k),
      nextCall |-> k,
      resolved |-> [i \in 1..k |-> [id |-> i, origin |-> "manual", ok |-> TRUE,
                                    val |-> RoundText(i)]] ]

InitLong ==
    \E k \in LongRounds :
      LET r == AfterRounds(k) IN
        /\ apiKey = TRUE
        /\ pc = "mounted"
        /\ now = r.now
        /\ isAnalyzing = FALSE
        /\ isCameraActive = TRUE
        /\ transcription = r.transcription
        /\ error = Null
        /\ history = r.history
        /\ isModelLoading = FALSE
        /\ logs = r.logs
        /\ analysisTimerRef = 0
        /\ timers = <<>>
        /\ nextTimer = 0
        /\ srcObject = 1
        /\ liveStreams = {1}
        /\ camPending = 0
        /\ camReqs = 1
        /\ inflight = {}
        /\ nextCall = r.nextCall
        /\ probes = 0
        /\ nProbes = 0
        /\ resolved = r.resolved
        /\ steps = MaxSteps - LongSteps
        /\ last = "analyzeFrameFulfilled"

SpecLong == InitLong /\ [][Events]_vars

\* ------------------------------------------------------------------ claims
Started == <<"Auto-analysis started", Empty>>
Stopped == <<"Auto-analysis stopped", Empty>>
CameraStopped == <<"Camera stopped", Empty>>

Idle == analysisTimerRef = 0 /\ DOMAIN timers = {} /\ ~isAnalyzing

\* the log shows, from entry k on, a start of the loop with no stop after it
ArmedBefore(k) ==
    \E i \in k..Len(logs) :
        /\ logs[i].msg = Started
        /\ \A j \in k..(i - 1) : logs[j].msg # Stopped

LastResolved == resolved[Len(resolved)]

Displayable(t) == t # Empty /\ t # NoSigns

\* the signature of line 151, spelled on its own
HasRateLimitSignature(m) ==
    \E i \in 1..Len(m) :
        \/ i + 2 <= Len(m) /\ <<m[i], m[i + 1], m[i + 2]>> = <<"4", "2", "9">>
        \/ i + 17 <= Len(m) /\ SubSeq(m, i, i + 17) = SResourceExhausted

\* C1: a run of stopCamera while the loop is armed (handle set, analyzing)
\* ends Idle with the camera off: timer cancelled, handle null, analyzing
\* false; and no state has the camera off with a live timer.
C1_StopCameraLeavesIdle ==
    /\ [](~isCameraActive => DOMAIN timers = {})
    /\ [][(clickStopCamera /\ analysisTimerRef # 0 /\ isAnalyzing)
            => (Idle /\ ~isCameraActive)']_vars

C1_Witness ==
    /\ last = "clickStopCamera"
    /\ Len(logs) >= 3
    /\ logs[1].msg = Stopped
    /\ logs[2].msg = CameraStopped
    /\ ArmedBefore(3)
    /\ Idle /\ ~isCameraActive

\* C2: when an analysis call fails with a message containing "429" or
\* "RESOURCE_EXHAUSTED" while the loop is armed, handling the failure leaves
\* the loop Idle and the error message set to the rate-limit text.
C2_RateLimitStopsLoop ==
    [][\A c \in inflight, m \in ErrMessages :
          (analyzeFrameRejected(c, m) /\ HasRateLimitSignature(m) /\ analysisTimerRef # 0)
            => (Idle /\ error # Null /\ error = RateLimitText)']_vars

C2_Witness ==
    /\ last = "analyzeFrameRejected"
    /\ HasRateLimitSignature(LastResolved.val)
    /\ Len(logs) >= 3
    /\ logs[1].msg = Stopped
    /\ ArmedBefore(3)
    /\ Idle /\ error = RateLimitText

\* C3: with the credential absent, once both mount effects have run an entry
\* of severity error is in the log and the error message is the
\* missing-credential text.
C3_StartupBanner ==
    (pc = "mounted" /\ steps = 0 /\ ~apiKey)
      => /\ \E i \in DOMAIN logs : logs[i].type = "error"
         /\ error = MissingKeyText

\* C4 as claimed: a manual capture makes one analysis call (one request when
\* the credential is set) and neither it nor the handling of its response,
\* whatever the outcome, changes the analyzing flag or the timer handle.
C4_ManualNeverTouchesLoop ==
    [][/\ manualCapture =>
            /\ UNCHANGED <<isAnalyzing, analysisTimerRef>>
            /\ inflight \subseteq inflight'
            /\ Cardinality(inflight' \ inflight) = (IF apiKey THEN 1 ELSE 0)
       /\ \A c \in inflight :
            (/\ c.origin = "manual"
             /\ \/ \E raw \in RawTexts : analyzeFrameFulfilled(c, raw)
                \/ \E m \in ErrMessages : analyzeFrameRejected(c, m))
              => UNCHANGED <<isAnalyzing, analysisTimerRef>>]_vars

\* C4 as amended: the manual capture itself and the handling of a text,
\* sentinel or generic-error outcome leave the flag and the handle alone; a
\* rate-limit failure of the manual call runs stopAnalysis, which leaves the
\* handle null and analyzing false.
C4_ManualTouchesLoopOnlyOnRateLimit ==
    [][/\ manualCapture =>
            /\ UNCHANGED <<isAnalyzing, analysisTimerRef, timers>>
            /\ inflight \subseteq inflight'
            /\ Cardinality(inflight' \ inflight) = (IF apiKey THEN 1 ELSE 0)
       /\ \A c \in inflight : c.origin = "manual" =>
            /\ \A raw \in RawTexts : analyzeFrameFulfilled(c, raw)
                  => UNCHANGED <<isAnalyzing, analysisTimerRef, timers>>
            /\ \A m \in ErrMessages : analyzeFrameRejected(c, m)
                  => IF HasRateLimitSignature(m)
                       THEN Idle'
                       ELSE UNCHANGED <<isAnalyzing, analysisTimerRef, timers>>]_vars

C4_Witness ==
    /\ last = "analyzeFrameRejected"
    /\ LastResolved.origin = "manual"
    /\ HasRateLimitSignature(LastResolved.val)
    /\ Len(logs) >= 3
    /\ logs[1].msg = Stopped
    /\ ArmedBefore(3)
    /\ Idle

\* C5: at most one interval is live, and a live interval is the one the
\* handle holds.
C5_OneTimer ==
    /\ Cardinality(DOMAIN timers) <= 1
    /\ \A id \in DOMAIN timers : id = analysisTimerRef

C5_Witness ==
    /\ nextTimer >= 2
    /\ DOMAIN timers = {analysisTimerRef}
    /\ analysisTimerRef = nextTimer

\* C6: startAnalysis called while the handle is set changes nothing: no
\* second interval, no analysis call, no log entry, no state field.
C6_StartWhileArmedIsNoOp ==
    [][(startAnalysis /\ analysisTimerRef # 0) => UNCHANGED appVars]_vars

C6_Witness ==
    /\ last = "startAnalysis"
    /\ analysisTimerRef # 0
    /\ DOMAIN timers = {analysisTimerRef}
    /\ logs # <<>>
    /\ logs[1].msg # Started

\* C7: a response whose trimmed text is exactly "No signs" leaves
\* transcription and history as they were and adds exactly one log entry, of
\* severity info, that records the result.
C7_SentinelOnlyLogged ==
    [][\A c \in inflight, raw \in RawTexts :
          (analyzeFrameFulfilled(c, raw) /\ Trim(raw) = NoSigns)
            => /\ UNCHANGED <<transcription, history>>
               /\ logs' # <<>>
               /\ logs'[1].type = "info"
               /\ logs'[1].msg = <<"AI Result: ", NoSigns>>
               /\ Tail(logs') = Take(logs, LOG_CAP - 1)]_vars

C7_Witness ==
    /\ last = "analyzeFrameFulfilled"
    /\ LastResolved.val = NoSigns
    /\ transcription # Empty
    /\ history # <<>>
    /\ logs[1].msg = <<"AI Result: ", NoSigns>>

\* C8: a response whose trimmed text is non-empty and not the sentinel
\* becomes the transcription and the text of history[0], the earlier entries
\* following in their order up to the cap; an empty response changes neither.
C8_TextShownAndPrepended ==
    [][\A c \in inflight, raw \in RawTexts :
          analyzeFrameFulfilled(c, raw) =>
            LET text == IF raw = Undefined THEN Empty ELSE Trim(raw) IN
              /\ Displayable(text) =>
                   /\ transcription' = text
                   /\ history' # <<>>
                   /\ history'[1].text = text
                   /\ Tail(history') = Take(history, HISTORY_CAP - 1)
              /\ text = Empty => UNCHANGED <<transcription, history>>]_vars

C8_Witness ==
    /\ last = "analyzeFrameFulfilled"
    /\ Displayable(LastResolved.val)
    /\ Len(history) >= 2
    /\ history[1].text = LastResolved.val
    /\ history[2].text # history[1].text
    /\ transcription = LastResolved.val

\* C9: analysis calls are not mutually excluded, and of the responses with
\* displayable text the one handled last is the transcription, whichever
\* call was made first.
LastShown ==
    LET shown == {i \in DOMAIN resolved : resolved[i].ok /\ Displayable(resolved[i].val)} IN
      IF shown = {}
        THEN Empty
        ELSE resolved[CHOOSE i \in shown : \A j \in shown : j <= i].val

C9_LastResolvedWins == transcription = LastShown

\* a manual and an automatic call overlapped, the later-made one was handled
\* first, and the transcription is the text of the earlier-made one
C9_Witness ==
    /\ inflight = {}
    /\ Len(resolved) = 2
    /\ resolved[1].id > resolved[2].id
    /\ resolved[1].origin # resolved[2].origin
    /\ resolved[1].ok /\ Displayable(resolved[1].val)
    /\ resolved[2].ok /\ Displayable(resolved[2].val)
    /\ resolved[1].val # resolved[2].val
    /\ transcription = resolved[2].val

\* C10: a failure without the rate-limit signature, handled while the loop is
\* armed, leaves the handle, the flag and the live interval as they were (its
\* ticks go on making calls) and adds a log entry of severity error.
C10_GenericErrorKeepsLoop ==
    [][\A c \in inflight, m \in ErrMessages :
          (analyzeFrameRejected(c, m) /\ ~HasRateLimitSignature(m) /\ analysisTimerRef # 0)
            => /\ UNCHANGED <<analysisTimerRef, isAnalyzing, timers>>
               /\ analysisTimerRef' \in DOMAIN timers'
               /\ timers'[analysisTimerRef'] /\ apiKey
               /\ logs' # <<>>
               /\ logs'[1].type = "error"
               /\ Tail(logs') = Take(logs, LOG_CAP - 1)]_vars

C10_Witness ==
    /\ last = "analyzeFrameRejected"
    /\ ~HasRateLimitSignature(LastResolved.val)
    /\ isAnalyzing
    /\ analysisTimerRef \in DOMAIN timers
    /\ logs[1].type = "error"

\* in a list, no entry is older than one behind it
NewestFirst(list) ==
    \A i, j \in DOMAIN list : i < j => list[i].time >= list[j].time

\* the run has gone on from the start of the long session
InLongRun == steps > MaxSteps - LongSteps

\* C11: history never holds more than 10 entries and is ordered newest
\* first; a displayable result that arrives while it holds 10 removes the
\* last entry and puts the new one in front of the other 9, in their order.
C11_HistoryCapped ==
    /\ [](Len(history) <= HISTORY_CAP /\ NewestFirst(history))
    /\ [][\A c \in inflight, raw \in RawTexts :
            (/\ analyzeFrameFulfilled(c, raw)
             /\ Displayable(IF raw = Undefined THEN Empty ELSE Trim(raw))
             /\ Len(history) = HISTORY_CAP)
              => /\ Len(history') = HISTORY_CAP
                 /\ history'[1].text = Trim(raw)
                 /\ history'[1].time = now
                 /\ SubSeq(history', 2, HISTORY_CAP) = SubSeq(history, 1, HISTORY_CAP - 1)]_vars

C11_Witness ==
    /\ InLongRun
    /\ last = "analyzeFrameFulfilled"
    /\ LastResolved.ok /\ Displayable(LastResolved.val)
    /\ Cardinality({i \in 1..(Len(resolved) - 1) :
                      resolved[i].ok /\ Displayable(resolved[i].val)}) >= HISTORY_CAP
    /\ Len(history) = HISTORY_CAP
    /\ history[1].text = LastResolved.val
    /\ history[HISTORY_CAP].time < history[1].time

\* C12: the log never holds more than 50 entries and is ordered newest
\* first; entries added while it holds 50 push out as many from its end; the
\* trash button empties it.
C12_LogCapped ==
    /\ [](Len(logs) <= LOG_CAP /\ NewestFirst(logs))
    /\ [][(Len(logs) = LOG_CAP /\ logs' # logs /\ ~clearLogs)
            => /\ Len(logs') = LOG_CAP
               /\ \E n \in 1..LOG_CAP :
                    /\ SubSeq(logs', n + 1, LOG_CAP) = SubSeq(logs, 1, LOG_CAP - n)
                    /\ \A i \in 1..n : logs'[i].time = now]_vars
    /\ [][clearLogs => logs' = <<>>]_vars

C12_Witness ==
    /\ InLongRun
    /\ last # "clearLogs"
    /\ Len(logs) = LOG_CAP
    /\ logs[LOG_CAP].msg # <<"API Key found in environment", Empty>>
    /\ logs[LOG_CAP].msg # <<"Starting camera...", Empty>>
    /\ logs[1].time > logs[LOG_CAP].time

\* C13: the Dismiss button sets the error message to null and leaves
\* history, the log, the transcription, camera-active, analyzing and the
\* timer handle as they were.
C13_DismissOnlyClearsError ==
    [][dismissError
         => /\ error' = Null
            /\ UNCHANGED <<history, logs, transcription, isCameraActive,
                           isAnalyzing, analysisTimerRef, timers>>]_vars

C13_Witness ==
    /\ last = "dismissError"
    /\ error = Null
    /\ logs # <<>>
    /\ history # <<>>
    /\ transcription # Empty

\* the requests that a step adds to the calls in flight
NewCalls == inflight' \ inflight

\* C14: analyzeFrame run while the camera is off or the credential is absent
\* does nothing: no request, and the loading flag, the log, the
\* transcription, history, the error and the loop state stay as they were.
C14_GuardedCallIsNoOp ==
    [][(~isCameraActive \/ ~apiKey) =>
         /\ \A id \in DOMAIN timers : intervalTick(id) => UNCHANGED appVars
         /\ manualCapture => UNCHANGED appVars
         /\ (startAnalysis /\ analysisTimerRef = 0)
              => /\ inflight' = inflight
                 /\ UNCHANGED <<isModelLoading, transcription, history, error>>
                 /\ Tail(logs') = Take(logs, LOG_CAP - 1)]_vars

C14_Witness ==
    /\ last = "intervalTick"
    /\ ~isCameraActive
    /\ apiKey
    /\ analysisTimerRef \in DOMAIN timers
    /\ nextCall = 0
    /\ inflight = {}
    /\ ~isModelLoading

\* C15: startAnalysis from Idle leaves analyzing true, one analysis call made
\* at once and one interval, held by the handle; each tick of it makes one
\* more call, and it ticks for as long as the handle is set.
C15_StartArmsLoop ==
    /\ [](analysisTimerRef # 0 => analysisTimerRef \in DOMAIN timers)
    /\ [][/\ (clickStartAuto /\ Idle)
               => /\ isAnalyzing'
                  /\ analysisTimerRef' # 0
                  /\ DOMAIN timers' = {analysisTimerRef'}
                  /\ inflight \subseteq inflight'
                  /\ Cardinality(NewCalls) = (IF apiKey THEN 1 ELSE 0)
                  /\ \A c \in NewCalls : c.origin = "auto"
          /\ \A id \in DOMAIN timers : intervalTick(id)
               => /\ id = analysisTimerRef /\ isAnalyzing
                  /\ UNCHANGED <<isAnalyzing, analysisTimerRef, timers>>
                  /\ inflight \subseteq inflight'
                  /\ Cardinality(NewCalls) = (IF apiKey THEN 1 ELSE 0)
                  /\ \A c \in NewCalls : c.origin = "auto"]_vars

C15_Witness ==
    /\ last = "intervalTick"
    /\ isAnalyzing
    /\ nextTimer = 1
    /\ Cardinality(inflight) = 2
    /\ \A c \in inflight : c.origin = "auto"

\* a run of stopAnalysis: from the auto button, from stopCamera, or from the
\* rate-limit branch of analyzeFrame's catch
StopAnalysisRuns ==
    \/ clickStopAuto
    \/ clickStopCamera /\ srcObject # 0
    \/ \E c \in inflight, m \in ErrMessages :
          analyzeFrameRejected(c, m) /\ HasRateLimitSignature(m)

\* C16: a run of stopAnalysis leaves the loading flag false and no interval
\* live; an interval ticks only while the handle is set, and only
\* startAnalysis sets the handle.
C16_StopSilencesTimer ==
    /\ [][StopAnalysisRuns
            => (~isModelLoading /\ analysisTimerRef = 0 /\ DOMAIN timers = {})']_vars
    /\ [][(\E id \in DOMAIN timers : intervalTick(id)) => analysisTimerRef # 0]_vars
    /\ [][(analysisTimerRef = 0 /\ analysisTimerRef' # 0) => clickStartAuto]_vars

C16_Witness ==
    /\ last = "clickStopAuto"
    /\ inflight # {}
    /\ ~isModelLoading
    /\ Idle

\* C17: analyzing implies camera-active; the loop is started only with the
\* camera on, and a step that turns the camera off turns analyzing off.
C17_AnalyzingNeedsCamera ==
    /\ [](isAnalyzing => isCameraActive)
    /\ [][(~isAnalyzing /\ isAnalyzing') => isCameraActive]_vars
    /\ [][(isCameraActive /\ ~isCameraActive') => ~isAnalyzing']_vars

C17_Witness ==
    /\ last = "clickStartAuto"
    /\ isAnalyzing
    /\ isCameraActive
    /\ analysisTimerRef \in DOMAIN timers

\* C18: once stopCamera has run and no getUserMedia request is pending, no
\* stream that startCamera acquired has running tracks.
C18_StopReleasesEveryStream ==
    (last = "clickStopCamera" /\ camPending = 0) => liveStreams = {}

\* C19 as claimed: a rejected getUserMedia sets the camera error text, logs
\* an entry of severity error, leaves camera-active false and the loop as it
\* was, and makes no new request.
C19_StartFailureLeavesCameraOff ==
    [][\A m \in CameraErrors :
          startCameraRejected(m)
            => /\ error' = <<"Camera Error: ", m>>
               /\ logs' # <<>> /\ logs'[1].type = "error"
               /\ Tail(logs') = Take(logs, LOG_CAP - 1)
               /\ ~isCameraActive'
               /\ UNCHANGED <<isAnalyzing, analysisTimerRef, timers>>
               /\ camReqs' = camReqs
               /\ camPending' = camPending - 1]_vars

\* C19 as amended: the same, with camera-active left as it was (true when
\* an overlapping startCamera had already been granted its stream).
C19_StartFailureLeavesCameraAsIs ==
    [][\A m \in CameraErrors :
          startCameraRejected(m)
            => /\ error' = <<"Camera Error: ", m>>
               /\ logs' # <<>> /\ logs'[1].type = "error"
               /\ Tail(logs') = Take(logs, LOG_CAP - 1)
               /\ UNCHANGED <<isCameraActive, srcObject, liveStreams>>
               /\ UNCHANGED <<isAnalyzing, analysisTimerRef, timers>>
               /\ camReqs' = camReqs
               /\ camPending' = camPending - 1]_vars

C19_Witness ==
    /\ last = "startCameraRejected"
    /\ ~isCameraActive
    /\ camPending = 0
    /\ error # Null
    /\ error[1] = "Camera Error: "
    /\ logs[1].type = "error"

\* C20: the analyzing flag is true exactly when the timer handle is set, and
\* the handle is set exactly when it names a live interval.
C20_AnalyzingIffHandle ==
    /\ isAnalyzing <=> analysisTimerRef # 0
    /\ analysisTimerRef # 0 <=> analysisTimerRef \in DOMAIN timers
    /\ isAnalyzing <=> DOMAIN timers # {}

C20_Witness ==
    /\ last = "analyzeFrameFulfilled"
    /\ isAnalyzing
    /\ analysisTimerRef # 0
    /\ nextTimer >= 2

\* a remote call, analysis or connectivity probe, awaits its response
RemoteCallInFlight == inflight # {} \/ probes > 0

\* C21: while the loading flag is true a remote call is in flight; with no
\* remote call in flight the loading flag is false.
C21_LoadingImpliesCallInFlight ==
    /\ isModelLoading => RemoteCallInFlight
    /\ ~RemoteCallInFlight => ~isModelLoading

C21_Witness ==
    /\ last = "testAIConnection"
    /\ isModelLoading
    /\ probes = 1
    /\ inflight # {}

====
